---- MODULE Spec2Model ----
(***************************************************************************)
(* Model of openbookv2-printer (src/openbookv2-printer/src/main.rs):       *)
(* one producer task (gRPC subscription loop, log decoding, diagnostic     *)
(* block-time check) and the main consumer loop (venue lookup, owner       *)
(* resolution, publish) joined by an unbounded mpsc channel.               *)
(***************************************************************************)
EXTENDS Integers, Sequences, FiniteSets, TLC

(* ------------------------------ bounds --------------------------------- *)
\* number of fill events the producer may enqueue in one run
MaxEvents == 2
\* largest configured diagnostic threshold (config.check)
MaxCheck == 2
\* largest number of log lines in one transaction update
MaxLogs == 2
\* largest number of consecutive failed subscription attempts
MaxFails == 2

(* --------------------------- program constants ------------------------- *)
\* length of the anchor discriminator compared at main.rs:202
DiscLen == 8
\* seconds slept after a failed subscription (main.rs:183)
SubscribeRetrySecs == 5
\* seconds slept after a stream error or stream end (main.rs:242, 247)
StreamRetrySecs == 1

(* ------------------------------ datatypes ------------------------------ *)
\* config.market_keys: the configured venue addresses
MarketKeys == {1, 2}
\* sub-account (open orders account) addresses seen in fills
SubAccounts == {1, 2}
\* transaction signatures
Signatures == {"sigA", "sigB"}
\* absence of a value (Option::None)
None == 0
\* the owner field stored on chain in the open orders account of s
OwnerOf(s) == s + 10
\* parse_name(&market.name) of the venue account at address m
NameOf(m) == IF m = 1 THEN <<"V", "1", "NUL", "NUL">> ELSE <<"V", "2", "NUL">>

\* FillLog::discriminator(): eight fixed bytes
discriminator == <<1, 2, 3, 4, 5, 6, 7, 8>>
\* eight bytes of another event type
otherTag == <<8, 7, 6, 5, 4, 3, 2, 1>>

(* --------------------------- log line text ----------------------------- *)
\* A log line is a sequence of text pieces: the literal "Program data: ",
\* a run of characters outside the base64 alphabet, or the base64 encoding
\* of a byte string.
Sentinel == [k |-> "sentinel", bytes |-> <<>>]
Raw == [k |-> "raw", bytes |-> <<>>]
B64(b) == [k |-> "b64", bytes |-> b]

\* log.contains("Program data: ")
Contains(log) == \E i \in 1..Len(log) : log[i] = Sentinel

\* log.replace("Program data: ", ""): every occurrence is removed
Replace(log) == SelectSeq(log, LAMBDA p : p # Sentinel)

RECURSIVE Base64Decode(_)
\* base64::decode(data): an Err for any character outside the alphabet and
\* for padding that is followed by more data; otherwise the bytes
Base64Decode(text) ==
  IF text = <<>> THEN [ok |-> TRUE, bytes |-> <<>>]
  ELSE IF Head(text).k # "b64" THEN [ok |-> FALSE, bytes |-> <<>>]
  ELSE IF Len(text) > 1 /\ Len(Head(text).bytes) % 3 # 0
       THEN [ok |-> FALSE, bytes |-> <<>>]
  ELSE LET rest == Base64Decode(Tail(text))
       IN  IF rest.ok THEN [ok |-> TRUE, bytes |-> Head(text).bytes \o rest.bytes]
           ELSE rest

\* serialized FillLog body: market, maker, taker (one byte each here)
BodyLen == 3
\* FillLog::deserialize(&mut &data[8..]): Err when the bytes run out,
\* trailing bytes are ignored
Deserialize(body) ==
  IF Len(body) < BodyLen THEN [ok |-> FALSE, market |-> None, maker |-> None, taker |-> None]
  ELSE [ok |-> TRUE, market |-> body[1], maker |-> body[2], taker |-> body[3]]


(* ------------------------------ inputs --------------------------------- *)
\* serialized bodies of well-formed fills <<market, maker, taker>>: maker and
\* taker the same sub-account, two sub-accounts, and a fill of venue 2
Bodies == {<<1, 1, 1>>, <<1, 1, 2>>, <<2, 1, 2>>}
\* log lines the stream may deliver
LogLines ==
     \* "Program data: <fill>"
     {<<Sentinel, B64(discriminator \o <<1, 1, 2>>)>>,
      <<Sentinel, B64(discriminator \o <<2, 1, 1>>)>>}
     \* "Program data: <another event>"
  \cup {<<Sentinel, B64(otherTag \o <<1, 1, 1>>)>>}
     \* a line without the sentinel, with sentinel only, with a short payload,
     \* with a payload that is not base64, with a truncated fill body
  \cup {<<Raw>>, <<B64(discriminator \o <<1, 1, 1>>)>>, <<Sentinel>>,
        <<Sentinel, B64(<<1, 2, 3, 4, 5, 6, 7>>)>>,
        <<Sentinel, Raw>>,
        <<Sentinel, B64(discriminator)>>, <<Sentinel, B64(discriminator \o <<1>>)>>}
     \* the sentinel text after other text: "Program log: Program data: <fill>"
     \* and "<first 8 base64 characters>Program data: <rest>"
  \cup {<<Raw, Sentinel, B64(discriminator \o <<1, 1, 2>>)>>,
        <<B64(<<1, 2, 3, 4, 5, 6>>), Sentinel, B64(<<7, 8, 1, 1, 2>>)>>}
\* the lines of a stream of fills: fills, another event, one truncated fill
FillLines ==
  {<<Sentinel, B64(discriminator \o b)>> : b \in Bodies}
  \cup {<<Sentinel, B64(otherTag \o <<1, 1, 1>>)>>, <<Sentinel, B64(discriminator \o <<1>>)>>}

(* ------------------------------- state --------------------------------- *)
VARIABLES
  markets,        \* BTreeMap address -> venue state, built at startup
  market_names,   \* BTreeMap address -> venue name, built at startup
  check0,         \* config.check as configured
  check,          \* the producer's mutable copy of the threshold
  counter,        \* the producer's count of enqueued fills
  ppc,            \* producer position: Connecting, Failed, Streaming, StreamBroken, Panicked
  request,        \* the SubscribeRequest built at startup
  subscribed,     \* the request passed to the last subscribe_with_request call
  fails,          \* history: failed subscription attempts since the last success
  waited,         \* history: seconds slept between those attempts
  delay,          \* seconds of the sleep in progress, 0 when not sleeping
  logsLeft,       \* log lines of the current transaction still to iterate
  signature,      \* signature of the transaction whose logs are being iterated
  channel,        \* the unbounded channel: items sent and not yet received
  cpc,            \* consumer position: Recv, Maker, Taker, Done, Panicked
  fill_log,       \* the item the consumer is processing
  ooa2owner,      \* BTreeMap sub-account -> owner
  socket,         \* the last trade record handed to the outbound socket, and
                  \* whether socket.send returned Ok
  npublished,     \* history: number of records handed to the socket
  diag,           \* history: ordinals of the events that ran the block-time check
  lastLine,       \* history: what the producer did with the last log line
  nres,           \* history: resolutions per sub-account
  nlook,          \* history: external lookups per sub-account
  firstOk,        \* history: outcome of the first external lookup per sub-account
  discarded       \* history: items dropped for an unknown venue

vars == <<markets, market_names, request, check0, check, counter, ppc, subscribed, fails,
          waited, delay, logsLeft, signature,
          channel, cpc, fill_log, ooa2owner, socket, npublished, diag, lastLine,
          nres, nlook, firstOk, discarded>>

prodVars == <<check, counter, ppc, subscribed, fails, waited, delay, logsLeft, signature,
              diag, lastLine>>
consVars == <<cpc, fill_log, ooa2owner, socket, npublished, nres, nlook, firstOk, discarded>>
startVars == <<markets, market_names, request, check0>>

NoFill == [market |-> None, maker |-> None, taker |-> None, tx_hash |-> "",
           seq |-> 0, sub_maker |-> None, sub_taker |-> None,
           maker_res |-> None, taker_res |-> None]
NoLine == [prefixed |-> FALSE, payload |-> "none", step |-> "none", time_err |-> FALSE]
NoTrade == [trade |-> [market_name |-> <<>>, maker |-> None, taker |-> None,
                       signature |-> ""],
            fill |-> NoFill, sent |-> TRUE]

\* no subscribe_with_request call was made yet
NoRequest == [transactions |-> <<>>, issued |-> FALSE]

\* a mutation: the venue state is stored for every configured key
MarketsOf_All(found) == [m \in MarketKeys |-> "Market"]

\* the address -> venue state table after the loop over the accounts
\* (main.rs:112-124); found is the set of configured keys whose account exists
MarketsOf(found) == [m \in found |-> "Market"]

\* the address -> name table after the same loop (main.rs:111-124)
MarketNamesOf(found) == [m \in found |-> NameOf(m)]

\* the filter of one venue (main.rs:138-145)
TxFilter(key) ==
  [vote |-> "None", failed |-> "Some(false)", signature |-> "None",
   account_include |-> <<>>, account_exclude |-> <<>>, account_required |-> <<key>>]

\* the transactions map of the request: one filter per key of markets
\* (main.rs:136-147)
Transactions(table) == [key \in DOMAIN table |-> TxFilter(key)]

\* startup (main.rs:110-172, 264): the venue tables hold the configured keys
\* whose account was found
Init ==
  /\ \E found \in SUBSET MarketKeys :
        /\ markets = MarketsOf(found)
        /\ market_names = MarketNamesOf(found)
  /\ request = [transactions |-> Transactions(markets), issued |-> TRUE]
  /\ subscribed = NoRequest
  /\ fails = 0
  /\ waited = 0
  /\ check0 \in 0..MaxCheck
  /\ check = check0
  /\ counter = 0
  /\ ppc = "Connecting"
  /\ delay = 0
  /\ logsLeft = 0
  /\ signature = ""
  /\ channel = <<>>
  /\ cpc = "Recv"
  /\ fill_log = NoFill
  /\ ooa2owner = <<>>
  /\ socket = NoTrade
  /\ npublished = 0
  /\ diag = {}
  /\ lastLine = NoLine
  /\ nres = [s \in SubAccounts |-> 0]
  /\ nlook = [s \in SubAccounts |-> 0]
  /\ firstOk = [s \in SubAccounts |-> "none"]
  /\ discarded = 0


(* ------------------------------ producer ------------------------------- *)
\* the receiving half of the channel still exists
ReceiverAlive == cpc \notin {"Done", "Panicked"}

\* what lines 199-202 and 230 make of one log line:
\*   "skip"        no sentinel in the line, nothing is decoded
\*   "b64_panic"   base64::decode(..).unwrap() on an Err
\*   "index_panic" data.as_slice()[..8] on fewer than 8 bytes
\*   "other"       the first 8 bytes are not the fill discriminator
\*   "deser_panic" FillLog::deserialize(..).unwrap() on an Err
\*   "fill"        a fill was decoded
LineStep(log) ==
  IF ~Contains(log) THEN "skip"
  ELSE LET data == Base64Decode(Replace(log))
       IN  IF ~data.ok THEN "b64_panic"
           ELSE IF Len(data.bytes) < DiscLen THEN "index_panic"
           ELSE IF SubSeq(data.bytes, 1, DiscLen) # discriminator THEN "other"
           ELSE IF ~Deserialize(SubSeq(data.bytes, DiscLen + 1, Len(data.bytes))).ok
                THEN "deser_panic"
           ELSE "fill"

\* the FillLog of a line whose LineStep is "fill"
LineFill(log) ==
  LET data == Base64Decode(Replace(log))
  IN  Deserialize(SubSeq(data.bytes, DiscLen + 1, Len(data.bytes)))

\* the line begins with "Program data: "
Prefixed(log) == Len(log) > 0 /\ log[1] = Sentinel

\* what follows the sentinel prefix of a line (or the whole line without one):
\*   "short"     base64 of fewer than 8 bytes
\*   "notbase64" not a base64 text
\*   "other"     base64 of 8 bytes or more that do not start with the fill tag
\*   "badbody"   the fill tag followed by too few bytes
\*   "fill"      the fill tag followed by a serialized fill
PayloadClass(log) ==
  LET text == IF Prefixed(log) THEN Tail(log) ELSE log
  IN  IF text = <<>> THEN "short"
      ELSE IF Len(text) > 1 \/ text[1].k # "b64" THEN "notbase64"
      ELSE LET b == text[1].bytes
           IN  IF Len(b) < DiscLen THEN "short"
               ELSE IF \E i \in 1..DiscLen : b[i] # discriminator[i] THEN "other"
               ELSE IF Len(b) < DiscLen + BodyLen THEN "badbody"
               ELSE "fill"

\* history record of a log line
LineInfo(log, timeErr) ==
  [prefixed |-> Prefixed(log), payload |-> PayloadClass(log),
   step |-> LineStep(log), time_err |-> timeErr]

\* a mutation: the new item overtakes the items waiting in the channel
Enqueue_Front(ch, item) == <<item>> \o ch

\* tx_sender.send(item) on the unbounded channel (main.rs:231)
Enqueue(ch, item) == Append(ch, item)

\* the guard of the block-time check (main.rs:203)
CheckDue(cnt, chk) == cnt >= chk

\* a mutation: the delay doubles with every consecutive failure
SubscribeDelay_Backoff(n) == IF n = 0 THEN SubscribeRetrySecs ELSE 2 * n * SubscribeRetrySecs

\* the sleep after a failed subscription that follows n failed ones
\* (main.rs:183)
SubscribeDelay(n) == SubscribeRetrySecs

\* grpc_client.subscribe_with_request(Some(request.clone())) (main.rs:175-186);
\* at most maxFails attempts in a row fail
Subscribe(maxFails) ==
  /\ ppc = "Connecting"
  /\ subscribed' = request
  /\ \E ok \in BOOLEAN :
        /\ ~ok => fails < maxFails
        /\ ppc' = IF ok THEN "Streaming" ELSE "Failed"
        /\ delay' = IF ok THEN 0 ELSE SubscribeDelay(fails)
        /\ fails' = IF ok THEN 0 ELSE fails + 1
        /\ waited' = IF ok THEN 0 ELSE waited
  /\ logsLeft' = 0
  /\ UNCHANGED <<check, counter, signature, diag, lastLine, channel>>
  /\ UNCHANGED consVars /\ UNCHANGED startVars

\* sleep(5 s); continue 'outer (main.rs:183-184)
RetrySubscribe ==
  /\ ppc = "Failed"
  /\ ppc' = "Connecting"
  /\ waited' = waited + delay
  /\ delay' = 0
  /\ UNCHANGED <<check, counter, subscribed, fails, logsLeft, signature, diag, lastLine,
                 channel>>
  /\ UNCHANGED consVars /\ UNCHANGED startVars

\* stream.next() yields a transaction update signed with one of sigs
\* (main.rs:189-197); any other update changes nothing (main.rs:237)
StreamTransaction(sigs) ==
  /\ ppc = "Streaming" /\ logsLeft = 0
  /\ \E n \in 0..MaxLogs, sig \in sigs :
        /\ logsLeft' = n
        /\ signature' = IF n = 0 THEN "" ELSE sig
  /\ UNCHANGED <<check, counter, ppc, subscribed, fails, waited, delay, diag, lastLine,
                 channel>>
  /\ UNCHANGED consVars /\ UNCHANGED startVars

\* stream.next() yields Some(Err(e)) or None (main.rs:240-249)
StreamFail ==
  /\ ppc = "Streaming" /\ logsLeft = 0
  /\ ppc' = "StreamBroken"
  /\ delay' = StreamRetrySecs
  /\ UNCHANGED <<check, counter, subscribed, fails, waited, logsLeft, signature, diag,
                 lastLine, channel>>
  /\ UNCHANGED consVars /\ UNCHANGED startVars

\* sleep(1 s); break (main.rs:242-243, 247-248)
Reconnect ==
  /\ ppc = "StreamBroken"
  /\ ppc' = "Connecting"
  /\ delay' = 0
  /\ UNCHANGED <<check, counter, subscribed, fails, waited, logsLeft, signature, diag,
                 lastLine, channel>>
  /\ UNCHANGED consVars /\ UNCHANGED startVars

\* one iteration of `for log in logs.iter()` (main.rs:198-235) on a line
\* of the set lines
\* a mutation: a channel of capacity one
SendOk_Bounded(ch, alive) == alive /\ Len(ch) < 1

\* UnboundedSender::send is Ok while the receiver exists, whatever the length
\* of the queue (main.rs:166, 231)
SendOk(ch, alive) == alive

\* a mutation: the line is given up when the block time cannot be fetched
Proceeds_UnlessTimeErr(due, timeOk) == due => timeOk

\* the diagnostic block (main.rs:203-226) falls through to the decode and the
\* send in both arms of the match on get_block_time
Proceeds(due, timeOk) == TRUE

\* a mutation: every log line counts
CounterAfter_EveryLine(cnt, sent) == cnt + 1

\* counter += 1 follows the send, inside the branch of a decoded event
\* (main.rs:216-233)
CounterAfter(cnt, sent) == IF sent THEN cnt + 1 ELSE cnt

ProcessLog(lines) ==
  /\ ppc = "Streaming" /\ logsLeft > 0
  /\ \E log \in lines, timeOk \in BOOLEAN :
       LET step == LineStep(log)
           tagOk == step \in {"deser_panic", "fill"}
           due == tagOk /\ CheckDue(counter, check)
           f == LineFill(log)
           pushed == step = "fill" /\ Proceeds(due, timeOk)
           sent == pushed /\ SendOk(channel, ReceiverAlive)
       IN  /\ step = "fill" => counter < MaxEvents
           /\ lastLine' = LineInfo(log, due /\ ~timeOk)
           /\ diag' = IF due THEN diag \cup {counter + 1} ELSE diag
           /\ check' = IF due THEN 0 ELSE check
           /\ channel' = IF sent
                         THEN Enqueue(channel,
                                [market |-> f.market, maker |-> f.maker, taker |-> f.taker,
                                 tx_hash |-> signature, seq |-> counter + 1,
                                 sub_maker |-> f.maker, sub_taker |-> f.taker,
                                 maker_res |-> None, taker_res |-> None])
                         ELSE channel
           /\ counter' = CounterAfter(counter, sent)
           /\ ppc' = IF step \in {"b64_panic", "index_panic", "deser_panic"}
                        \/ (pushed /\ ~sent)
                     THEN "Panicked" ELSE "Streaming"
           /\ logsLeft' = IF ppc' = "Panicked" THEN 0 ELSE logsLeft - 1
           /\ signature' = IF logsLeft' = 0 THEN "" ELSE signature
  /\ UNCHANGED <<subscribed, fails, waited, delay>>
  /\ UNCHANGED consVars /\ UNCHANGED startVars


(* ------------------------------ consumer ------------------------------- *)
\* a mutation: the venue lookup always succeeds
VenueKnown_Any(m) == TRUE

\* markets.get(&fill_log.market) is Some (main.rs:266)
VenueKnown(m) == m \in DOMAIN markets

\* BTreeMap::insert
Insert(map, key, value) ==
  [k \in DOMAIN map \cup {key} |-> IF k = key THEN value ELSE map[k]]

\* get_owner_account_for_ooa(&client, &ooa2owner, key): the cached owner
\* without I/O on a hit, otherwise one external lookup; rpc is the outcome
\* of that lookup. The map is borrowed immutably (main.rs:268, 276).
GetOwnerAccountForOoa(map, key, rpc) ==
  IF key \in DOMAIN map THEN [result |-> map[key], io |-> FALSE]
  ELSE [result |-> IF rpc THEN OwnerOf(key) ELSE None, io |-> TRUE]

\* a mutation: the outcome of the resolution is stored whatever it is
OwnerMapAfter_StoreAny(map, key, result) == Insert(map, key, result)

\* the owner map after a resolution (main.rs:269-273, 277-281)
OwnerMapAfter(map, key, result) ==
  IF result # None
  THEN IF key \in DOMAIN map THEN Insert(map, key, result) ELSE map
  ELSE map

\* a mutation: the outcome replaces the address without the is_some test
Substitute_Unchecked(sub, result) == result

\* the address left in the fill after a resolution (main.rs:269-275, 277-283)
Substitute(sub, result) == IF result # None THEN result ELSE sub

\* market_name.clone().replace('\0', "")
StripNul(name) == SelectSeq(name, LAMBDA c : c # "NUL")

\* Trade::new(&fill_log, market, market_name, tx_hash)
Trade(fill, name, hash) ==
  [market_name |-> name, maker |-> fill.maker, taker |-> fill.taker, signature |-> hash]

\* a mutation: the result of socket.send is unwrapped
AfterSend_Unwrap(sendOk) == IF sendOk THEN "Recv" ELSE "Panicked"

\* where the consumer goes after socket.send: an Err is logged and the loop
\* continues (main.rs:291-298)
AfterSend(sendOk) == "Recv"

\* history bookkeeping of one resolution of key
Resolved(key, r) ==
  /\ nres' = [nres EXCEPT ![key] = @ + 1]
  /\ nlook' = [nlook EXCEPT ![key] = IF r.io THEN @ + 1 ELSE @]
  /\ firstOk' = [firstOk EXCEPT ![key] =
                   IF @ = "none" /\ r.io
                   THEN (IF r.result # None THEN "ok" ELSE "fail") ELSE @]

\* tx_receiver.recv() yields an item; venue lookup (main.rs:265-267, 299-301)
Recv ==
  /\ cpc = "Recv" /\ channel # <<>>
  /\ channel' = Tail(channel)
  /\ LET item == Head(channel)
     IN  IF VenueKnown(item.market)
         THEN /\ fill_log' = item
              /\ cpc' = IF item.market \in DOMAIN market_names THEN "Maker" ELSE "Panicked"
              /\ discarded' = discarded
         ELSE /\ fill_log' = NoFill
              /\ cpc' = "Recv"
              /\ discarded' = discarded + 1
  /\ UNCHANGED <<ooa2owner, socket, npublished, nres, nlook, firstOk>>
  /\ UNCHANGED prodVars /\ UNCHANGED startVars

\* a mutation: recv gives up as soon as the sender is gone
ChannelClosed_Early(ch, senderGone) == senderGone

\* UnboundedReceiver::recv returns None once every sender is dropped and the
\* queue is empty (main.rs:265)
ChannelClosed(ch, senderGone) == senderGone /\ ch = <<>>

\* tx_receiver.recv() yields None and the while-let loop ends (main.rs:265);
\* the only sender is owned by the producer task (main.rs:166-172)
RecvClosed ==
  /\ cpc = "Recv" /\ ChannelClosed(channel, ppc = "Panicked")
  /\ cpc' = "Done"
  /\ UNCHANGED <<fill_log, ooa2owner, socket, npublished, nres, nlook, firstOk,
                 discarded>>
  /\ UNCHANGED channel /\ UNCHANGED prodVars /\ UNCHANGED startVars

\* resolution of the maker (main.rs:268-275)
ResolveMaker ==
  /\ cpc = "Maker"
  /\ \E rpc \in BOOLEAN :
       LET r == GetOwnerAccountForOoa(ooa2owner, fill_log.maker, rpc)
       IN  /\ ooa2owner' = OwnerMapAfter(ooa2owner, fill_log.maker, r.result)
           /\ fill_log' = [fill_log EXCEPT !.maker = Substitute(@, r.result),
                                           !.maker_res = r.result]
           /\ Resolved(fill_log.maker, r)
  /\ cpc' = "Taker"
  /\ UNCHANGED <<socket, npublished, discarded>>
  /\ UNCHANGED channel /\ UNCHANGED prodVars /\ UNCHANGED startVars

\* resolution of the taker, Trade::new and socket.send (main.rs:276-298)
ResolveTakerAndPublish ==
  /\ cpc = "Taker"
  /\ \E rpc \in BOOLEAN, sendOk \in BOOLEAN :
       LET r == GetOwnerAccountForOoa(ooa2owner, fill_log.taker, rpc)
           enriched == [fill_log EXCEPT !.taker = Substitute(@, r.result),
                                        !.taker_res = r.result]
           trade == Trade(enriched, StripNul(market_names[fill_log.market]),
                          fill_log.tx_hash)
       IN  /\ ooa2owner' = OwnerMapAfter(ooa2owner, fill_log.taker, r.result)
           /\ socket' = [trade |-> trade, fill |-> enriched, sent |-> sendOk]
           /\ npublished' = npublished + 1
           /\ Resolved(fill_log.taker, r)
           /\ cpc' = AfterSend(sendOk)
  /\ fill_log' = NoFill
  /\ UNCHANGED discarded
  /\ UNCHANGED channel /\ UNCHANGED prodVars /\ UNCHANGED startVars

(* --------------------------- specification ----------------------------- *)
Next ==
  \/ Subscribe(1)
  \/ RetrySubscribe
  \/ StreamTransaction({"sigA"})
  \/ StreamFail
  \/ Reconnect
  \/ ProcessLog(FillLines)
  \/ Recv
  \/ RecvClosed
  \/ ResolveMaker
  \/ ResolveTakerAndPublish

\* the pipeline on a stream of fills
Spec == Init /\ [][Next]_vars

\* startup in which the account of venue 2 was not found
InitDecode == Init /\ DOMAIN markets = {1}

NextDecode ==
  \/ Subscribe(1)
  \/ RetrySubscribe
  \/ StreamTransaction(Signatures)
  \/ StreamFail
  \/ Reconnect
  \/ ProcessLog(LogLines)
  \/ Recv
  \/ RecvClosed
  \/ ResolveMaker
  \/ ResolveTakerAndPublish

\* the pipeline on a stream of arbitrary log lines
SpecDecode == InitDecode /\ [][NextDecode]_vars

\* the runtime keeps polling a task that can make progress, and timers fire
FairDecode ==
  /\ SpecDecode
  /\ WF_vars(Subscribe(1)) /\ WF_vars(RetrySubscribe) /\ WF_vars(Reconnect)
  /\ WF_vars(Recv) /\ WF_vars(RecvClosed)
  /\ WF_vars(ResolveMaker) /\ WF_vars(ResolveTakerAndPublish)

\* the lines of a stream of one kind of fill, whole or truncated
ProducerLines ==
  {<<Sentinel, B64(discriminator \o <<1, 1, 2>>)>>, <<Sentinel, B64(discriminator \o <<1>>)>>}

NextProducer ==
  \/ Subscribe(MaxFails)
  \/ RetrySubscribe
  \/ StreamTransaction(Signatures)
  \/ StreamFail
  \/ Reconnect
  \/ ProcessLog(ProducerLines)
  \/ Recv
  \/ RecvClosed
  \/ ResolveMaker
  \/ ResolveTakerAndPublish

\* the pipeline on a stream of one kind of fill, with repeated subscription
\* failures
SpecProducer == Init /\ [][NextProducer]_vars

\* the same pipeline with a consumer that is scheduled whenever it can run
FairProducer ==
  /\ SpecProducer
  /\ WF_vars(Recv) /\ WF_vars(RecvClosed)
  /\ WF_vars(ResolveMaker) /\ WF_vars(ResolveTakerAndPublish)

TypeOK ==
  /\ counter \in 0..MaxEvents
  /\ check \in 0..MaxCheck
  /\ ppc \in {"Connecting", "Failed", "Streaming", "StreamBroken", "Panicked"}
  /\ cpc \in {"Recv", "Maker", "Taker", "Done", "Panicked"}
  /\ logsLeft \in 0..MaxLogs
  /\ fails \in 0..MaxFails
  /\ delay = IF ppc = "Failed" THEN SubscribeRetrySecs
             ELSE IF ppc = "StreamBroken" THEN StreamRetrySecs ELSE 0
  /\ Len(channel) <= MaxEvents
  /\ npublished <= MaxEvents

(* ------------------------------- claims -------------------------------- *)
\* a step of ProcessLog: one log line of the current transaction was iterated
LineProcessed == logsLeft > 0 /\ logsLeft' < logsLeft

\* C1: for a threshold N >= 1 the block-time diagnostic fires exactly once,
\* on the N-th decoded event, and never for a later event.
C1_DiagnosticOnceOnNth ==
  check0 >= 1 => /\ diag \subseteq {check0}
                 /\ counter >= check0 => check0 \in diag

\* C2: when the first external lookup of a sub-account succeeded, a second
\* resolution of it performs no lookup: one lookup after two resolutions.
C2_SecondResolutionCached ==
  \A s \in SubAccounts : (firstOk[s] = "ok" /\ nres[s] >= 2) => nlook[s] = 1

\* C3: a resolution whose external lookup fails yields nothing (the fill
\* keeps the sub-account), leaves the owner map exactly as it was with no
\* entry for the sub-account, and a later resolution of the same
\* sub-account looks it up again.
C3_FailedLookupLeavesMap ==
  /\ [](\A s \in SubAccounts : (firstOk[s] = "fail" /\ nres[s] >= 2) => nlook[s] >= 2)
  /\ [][/\ (cpc = "Maker" /\ cpc' = "Taker" /\ fill_log'.maker_res = None)
             => /\ ooa2owner' = ooa2owner
                /\ fill_log.maker \notin DOMAIN ooa2owner'
                /\ fill_log'.maker = fill_log.maker
                /\ nlook'[fill_log.maker] = nlook[fill_log.maker] + 1
        /\ (cpc = "Taker" /\ cpc' = "Recv" /\ socket'.fill.taker_res = None)
             => /\ ooa2owner' = ooa2owner
                /\ fill_log.taker \notin DOMAIN ooa2owner'
                /\ socket'.fill.taker = fill_log.taker
                /\ nlook'[fill_log.taker] = nlook[fill_log.taker] + 1]_vars

\* C3 witness: the first lookup of a sub-account failed and a later
\* resolution of it issued the lookup again
C3_Witness ==
  \E s \in SubAccounts : firstOk[s] = "fail" /\ nres[s] >= 2 /\ nlook[s] >= 2

\* C4: the published record carries, for the maker and independently for
\* the taker, the resolved owner when the resolution succeeded and the
\* sub-account address otherwise; a fill of a known venue is published
\* whatever the resolutions yield.
C4_PassThroughFallback ==
  /\ [](npublished > 0 =>
          LET f == socket.fill
          IN  /\ f.maker_res \in {None, OwnerOf(f.sub_maker)}
              /\ f.taker_res \in {None, OwnerOf(f.sub_taker)}
              /\ socket.trade.maker =
                   IF f.maker_res # None THEN OwnerOf(f.sub_maker) ELSE f.sub_maker
              /\ socket.trade.taker =
                   IF f.taker_res # None THEN OwnerOf(f.sub_taker) ELSE f.sub_taker)
  /\ [][/\ cpc = "Maker" => cpc' \in {"Maker", "Taker"}
        /\ (cpc = "Taker" /\ cpc' # "Taker")
             => /\ npublished' = npublished + 1
                /\ socket'.fill.seq = fill_log.seq]_vars

\* C4 witness: the maker could not be resolved, the taker could, and the
\* record was published with maker = M and taker = O
C4_Witness ==
  /\ npublished > 0
  /\ socket.fill.maker_res = None /\ socket.trade.maker = socket.fill.sub_maker
  /\ socket.fill.taker_res # None /\ socket.trade.taker = OwnerOf(socket.fill.sub_taker)
  /\ socket.fill.sub_maker # socket.fill.sub_taker

\* C5: records reach the socket in the order in which the producer decoded
\* their log lines: the items waiting in the channel are in decode order,
\* all after the item being processed, and each published record was
\* decoded after the one published before it.
C5_PublishedInDecodeOrder ==
  /\ [](/\ \A i, j \in 1..Len(channel) : i < j => channel[i].seq < channel[j].seq
        /\ \A i \in 1..Len(channel) :
              channel[i].seq > fill_log.seq /\ channel[i].seq > socket.fill.seq
        /\ cpc \in {"Maker", "Taker"} => fill_log.seq > socket.fill.seq)
  /\ [][npublished' # npublished => socket'.fill.seq > socket.fill.seq]_vars

\* C5 witness: two records were published, the later decoded one last, while
\* the producer went through a reconnect
C5_Witness == npublished = 2 /\ socket.fill.seq = 2 /\ ppc = "StreamBroken"

\* C6: the producer task never stops, and every subscription failure,
\* stream error or stream end is followed by a new subscription attempt.
C6_NoGiveUp ==
  /\ [](ppc # "Panicked")
  /\ (ppc \in {"Failed", "StreamBroken"}) ~> (ppc = "Connecting")

\* C7: a line with the sentinel prefix whose payload decodes to fewer than
\* 8 bytes produces no event, leaves the counter alone and the producer
\* goes on with the following lines.
C7_ShortPayloadSkipped ==
  [][(LineProcessed /\ lastLine'.prefixed /\ lastLine'.payload = "short")
       => (channel' = channel /\ counter' = counter /\ ppc' = "Streaming")]_vars

\* C8: a payload that starts with the fill tag but is malformed, or that is
\* not valid base64, drops only that event: nothing is enqueued and the
\* producer stays in Streaming.
C8_MalformedPayloadDropped ==
  [][(LineProcessed /\ lastLine'.prefixed
        /\ lastLine'.payload \in {"badbody", "notbase64"})
       => (channel' = channel /\ counter' = counter /\ ppc' = "Streaming")]_vars

\* C9: a line that does not begin with the sentinel prefix produces no
\* event and no decode of it is attempted.
C9_UnprefixedLineIgnored ==
  [][(LineProcessed /\ ~lastLine'.prefixed)
       => (lastLine'.step = "skip" /\ channel' = channel /\ counter' = counter)]_vars

\* C10: a fill being enriched or published references a venue of the
\* startup table; a fill of any other venue is discarded with no owner
\* lookup, no change of the owner map and no publish, and the consumer
\* goes on receiving.
C10_UnknownVenueDiscarded ==
  /\ [](/\ cpc \in {"Maker", "Taker"} => fill_log.market \in DOMAIN markets
        /\ npublished > 0 => socket.fill.market \in DOMAIN markets)
  /\ [][(cpc = "Recv" /\ channel # <<>> /\ channel' = Tail(channel)
           /\ Head(channel).market \notin DOMAIN markets)
          => /\ cpc' = "Recv" /\ fill_log' = fill_log
             /\ ooa2owner' = ooa2owner /\ nlook' = nlook /\ nres' = nres
             /\ npublished' = npublished /\ socket' = socket
             /\ discarded' = discarded + 1]_vars

\* C10 witness: the first item was discarded for its venue and the consumer
\* went on to publish the second
C10_Witness == discarded = 1 /\ npublished = 1 /\ socket.fill.seq = 2

\* C11: a failed publish does not stop the consumer and the item is neither
\* retried nor put back: every publish attempt is for the item just
\* dequeued, which was never published before, the channel is left alone
\* and the consumer goes back to receiving.
C11_PublishFailureSwallowed ==
  [][npublished' # npublished
       => /\ npublished' = npublished + 1
          /\ cpc = "Taker" /\ socket'.fill.seq = fill_log.seq
          /\ socket'.fill.seq > socket.fill.seq
          /\ channel' = channel
          /\ fill_log' = NoFill
          /\ cpc' = "Recv"]_vars

\* C11 witness: the publish of the first item failed and the consumer is
\* processing the second
C11_Witness ==
  /\ npublished = 1 /\ ~socket.sent
  /\ cpc = "Maker" /\ fill_log.seq = 2 /\ socket.fill.seq = 1

\* C13: after a first-time resolution of a sub-account whose external lookup
\* succeeded, the owner map holds that sub-account with the owner found, by
\* the time the consumer is at its next resolution.
C13_FirstResolutionInserted ==
  \A s \in SubAccounts :
    firstOk[s] = "ok" => (s \in DOMAIN ooa2owner /\ ooa2owner[s] = OwnerOf(s))

\* C14: the reconnect state machine has only these transitions: a failed
\* subscription waits a fixed 5 seconds and re-enters Connecting, a successful
\* one enters Streaming, a stream error or end waits a fixed 1 second and
\* re-enters Connecting; the delay does not grow with consecutive failures, so
\* a subscription that fails once and then succeeds reaches Streaming after
\* exactly one 5-second delay.
C14_ReconnectFixedDelays ==
  /\ [](ppc = "Failed" => delay = SubscribeRetrySecs)
  /\ [](ppc = "StreamBroken" => delay = StreamRetrySecs)
  /\ [](ppc \in {"Connecting", "Streaming"} => delay = 0)
  /\ [](ppc = "Connecting" => waited = fails * SubscribeRetrySecs)
  /\ [][/\ ppc = "Connecting" => ppc' \in {"Connecting", "Streaming", "Failed"}
        /\ ppc = "Failed" => ppc' \in {"Failed", "Connecting"}
        /\ ppc = "StreamBroken" => ppc' \in {"StreamBroken", "Connecting"}
        /\ (ppc' = "Connecting" /\ ppc # "Connecting") => ppc \in {"Failed", "StreamBroken"}
        /\ (ppc' = "Streaming" /\ ppc # "Streaming") => ppc = "Connecting"
        /\ (ppc' = "Failed" /\ ppc # "Failed") => ppc = "Connecting"
        /\ (ppc' = "StreamBroken" /\ ppc # "StreamBroken") => ppc = "Streaming"
        /\ (ppc = "Connecting" /\ ppc' = "Streaming" /\ fails = 1)
             => waited = SubscribeRetrySecs]_vars

\* C14 witness: after events were streamed the stream broke and two
\* subscriptions in a row failed, each followed by a 5-second sleep
C14_Witness ==
  /\ ppc = "Connecting" /\ counter >= 1
  /\ fails = 2 /\ waited = 2 * SubscribeRetrySecs

\* C15: the push onto the channel never blocks and never fails because of
\* the length of the queue: whatever the queue holds and whatever the
\* consumer is doing, also while it is suspended in an owner lookup, the
\* producer can enqueue the next decoded event, and a push fails only when
\* the receiving side no longer exists.
C15_PushNeverBlocks ==
  /\ []((ppc = "Streaming" /\ logsLeft > 0 /\ counter < MaxEvents /\ ReceiverAlive)
          => ENABLED (ProcessLog(ProducerLines) /\ channel' # channel))
  /\ [][(LineProcessed /\ lastLine'.step = "fill")
          => /\ ReceiverAlive => (Len(channel') = Len(channel) + 1 /\ ppc' = "Streaming")
             /\ ppc' = "Panicked" => ~ReceiverAlive]_vars

\* C15 witness: an event was pushed behind one still waiting in the channel
C15_Witness ==
  /\ Len(channel) >= 2 /\ lastLine.step = "fill" /\ ppc = "Streaming"

\* C16: when the block-time fetch of the diagnostic check fails the pipeline
\* is not stopped: the triggering event is still enqueued with the signature
\* of its transaction, the counter advances and the producer stays in
\* Streaming.
C16_TimeFetchFailureSkipped ==
  [][(LineProcessed /\ lastLine'.time_err /\ lastLine'.step = "fill")
       => /\ Len(channel') = Len(channel) + 1
          /\ SubSeq(channel', 1, Len(channel)) = channel
          /\ channel'[Len(channel')].tx_hash = signature
          /\ channel'[Len(channel')].seq = counter + 1
          /\ counter' = counter + 1
          /\ check' = 0
          /\ ppc' = "Streaming"]_vars

\* C16 witness: the last line was a fill whose block-time fetch failed, and
\* it is in the channel with the signature of the second kind of transaction
C16_Witness ==
  /\ lastLine.time_err /\ lastLine.step = "fill" /\ ppc = "Streaming"
  /\ channel # <<>>
  /\ channel[Len(channel)].tx_hash = "sigB"
  /\ channel[Len(channel)].seq = counter

\* C17: every subscription attempt, the first and each one after a
\* reconnect, issues the same request: one transaction filter per venue found
\* at startup, whose required-account list is exactly that venue's address,
\* with failed transactions excluded and vote transactions excluded.
C17_SameRequestEveryAttempt ==
  subscribed.issued =>
    /\ subscribed = request
    /\ DOMAIN subscribed.transactions = DOMAIN markets
    /\ \A key \in DOMAIN subscribed.transactions :
         /\ subscribed.transactions[key].account_required = <<key>>
         /\ subscribed.transactions[key].failed = "Some(false)"
         /\ subscribed.transactions[key].vote = "Some(false)"

\* C18: when the producer task has stopped, the consumer still takes every
\* item left in the channel, in order, and only then terminates; the consumer
\* loop terminates in no other case.
C18_DrainThenTerminate ==
  /\ [](cpc = "Done" => /\ ppc = "Panicked" /\ channel = <<>> /\ fill_log = NoFill
                        /\ npublished + discarded = counter)
  /\ [](cpc # "Panicked")
  /\ [][(ppc = "Panicked" /\ channel' # channel)
          => (cpc = "Recv" /\ channel # <<>> /\ channel' = Tail(channel))]_vars
  /\ [][cpc = "Done" => cpc' = "Done"]_vars
  /\ (ppc = "Panicked" ~> cpc = "Done")

\* C18 witness: the consumer has terminated after the producer stopped, and
\* both events the producer had enqueued were processed
C18_Witness ==
  /\ cpc = "Done" /\ ppc = "Panicked"
  /\ counter >= 2 /\ npublished >= 1 /\ npublished + discarded = counter

\* C19: in every reachable state the number of events enqueued equals the
\* counter, and every enqueued event is in exactly one place: still in the
\* channel, being processed, published or failed to publish, or discarded
\* for an unknown venue; the events are taken once each, in order, so none
\* is published twice and none disappears.
C19_Conservation ==
  LET inProcess == IF cpc \in {"Maker", "Taker"} THEN 1 ELSE 0
      taken == counter - Len(channel)
  IN  /\ counter = Len(channel) + inProcess + npublished + discarded
      /\ \A i \in 1..Len(channel) : channel[i].seq = taken + i
      /\ inProcess = 1 => fill_log.seq = taken
      /\ inProcess = 0 => fill_log = NoFill
      /\ socket.fill.seq <= taken - inProcess
      /\ npublished = 0 <=> socket = NoTrade

\* C19 witness: of two events enqueued one waits in the channel while the
\* other is between its two owner lookups
C19_Witness ==
  /\ counter = 2 /\ Len(channel) = 1 /\ cpc = "Taker"
  /\ npublished = 0 /\ discarded = 0

\* C20: a configured venue whose account is not found at startup is not
\* fatal: it is left out of both lookup tables and of the subscription
\* filters; the two tables always have the same key set and neither changes
\* once the producer and the consumer run, so a fill that passes the venue
\* lookup always finds its venue name.
C20_TablesAgreeAndFrozen ==
  /\ [](/\ DOMAIN market_names = DOMAIN markets
        /\ DOMAIN request.transactions = DOMAIN markets
        /\ DOMAIN markets \subseteq MarketKeys
        /\ cpc # "Panicked")
  /\ [][markets' = markets /\ market_names' = market_names /\ request' = request]_vars
  /\ [][(Len(channel') < Len(channel) /\ VenueKnown(Head(channel).market))
          => /\ cpc' = "Maker" /\ fill_log'.market = Head(channel).market
             /\ fill_log'.market \in DOMAIN market_names]_vars

\* C20 witness: venue 2 was not found at startup; a fill of venue 1 was
\* published under its name and a fill of venue 2 was discarded
C20_Witness ==
  /\ DOMAIN markets = {1} /\ DOMAIN market_names = {1}
  /\ subscribed.issued /\ DOMAIN subscribed.transactions = {1}
  /\ npublished >= 1 /\ socket.fill.market = 1 /\ discarded >= 1

====
